---- MODULE Spec2Model ----
(***************************************************************************)
(* Model of challenges/dll.c: a doubly-linked list of heap strings.        *)
(*                                                                         *)
(* The heap is modelled explicitly: a pool of Node blocks, a pool of       *)
(* payload buffers and the DoublyLinkedList block.  Every operation of     *)
(* dll.c is an operator on the heap, written statement by statement; an    *)
(* access through NULL or through a block that is not allocated sets the   *)
(* heap's fault field and the rest of the call has no effect (the process  *)
(* has stopped).                                                           *)
(***************************************************************************)
EXTENDS Integers, Sequences, FiniteSets, TLC

\* ---------------------------------------------------------------- bounds
MaxNodes == 3        \* Node blocks the allocator can hand out at a time
MaxBufs  == 4        \* payload buffers the allocator can hand out at a time
NegIdx   == 1        \* indices are drawn from -NegIdx .. MaxNodes + 1

NULL  == 0
MAX_DATA_LEN == 100                 \* const int MAX_DATA_LEN = 100;
Addr  == 1..MaxNodes
Buf   == 1..MaxBufs
Texts   == {"Head", "A"}            \* payloads given to create/append/insert
Targets == Texts \cup {"Ba"}        \* texts searched for by find
Indices == (0 - NegIdx)..(MaxNodes + 1)

\* a text of MAX_DATA_LEN characters: with its terminator it takes one byte
\* more than a payload buffer has
LongText ==
  "0123456789012345678901234567890123456789012345678901234567890123456789012345678901234567890123456789"
LongTexts == {"A", LongText}

VARIABLES heap, pc, last, rt
vars == <<heap, pc, last, rt>>

\* ------------------------------------------------------- memory primitives
ZeroNode == [data |-> NULL, prev |-> NULL, next |-> NULL]
ZeroDll  == [head |-> NULL, tail |-> NULL, len |-> 0]

EmptyHeap ==
  [nlive |-> [a \in Addr |-> FALSE],
   node  |-> [a \in Addr |-> ZeroNode],
   blive |-> [b \in Buf |-> FALSE],
   btxt  |-> [b \in Buf |-> ""],
   dlive |-> FALSE,
   dll   |-> ZeroDll,
   over  |-> FALSE,
   fault |-> "none"]

Raise(h, f) == IF h.fault = "none" THEN [h EXCEPT !.fault = f] ELSE h

\* dereferencing the Node pointer p
Touch(h, p) ==
  IF p = NULL THEN Raise(h, "null_deref")
  ELSE IF ~h.nlive[p] THEN Raise(h, "use_after_free")
  ELSE h

\* p->f, read
Load(h, p, f) == IF p \in Addr THEN h.node[p][f] ELSE NULL

\* p->f = v
Store(h, p, f, v) ==
  LET h1 == Touch(h, p) IN
  IF h1.fault # "none" THEN h1 ELSE [h1 EXCEPT !.node[p][f] = v]

\* dereferencing the DoublyLinkedList pointer
TouchDll(h) == IF h.dlive THEN h ELSE Raise(h, "use_after_free")

\* dll->f = v
StoreDll(h, f, v) ==
  LET h1 == TouchDll(h) IN
  IF h1.fault # "none" THEN h1 ELSE [h1 EXCEPT !.dll[f] = v]

\* What calloc may return: NULL, or a block that is not allocated.  Blocks
\* that are not allocated are interchangeable (all zero-filled, and nothing
\* points to them), so the lowest one stands for all of them; with no block
\* left calloc can only return NULL.
Lowest(S) == {x \in S : \A y \in S : x <= y}
NodeChoices(h) == {NULL} \cup Lowest({a \in Addr : ~h.nlive[a]})
BufChoices(h)  == {NULL} \cup Lowest({b \in Buf : ~h.blive[b]})

\* calloc(1, sizeof(Node)) returning a: the block is zero-filled
CallocNode(h, a) ==
  IF h.fault # "none" \/ a = NULL THEN h
  ELSE [h EXCEPT !.nlive[a] = TRUE, !.node[a] = ZeroNode]

\* calloc(MAX_DATA_LEN, sizeof(char)) returning b: the buffer is zero-filled
CallocBuf(h, b) ==
  IF h.fault # "none" \/ b = NULL THEN h
  ELSE [h EXCEPT !.blive[b] = TRUE, !.btxt[b] = ""]

\* free(p) on a Node block; the contents of a released block are
\* indeterminate and are kept as zeroes
FreeNode(h, p) ==
  IF h.fault # "none" \/ p = NULL THEN h
  ELSE IF ~h.nlive[p] THEN Raise(h, "double_free")
  ELSE [h EXCEPT !.nlive[p] = FALSE, !.node[p] = ZeroNode]

\* free(dll)
FreeDllBlock(h) ==
  IF h.fault # "none" THEN h
  ELSE IF ~h.dlive THEN Raise(h, "double_free")
  ELSE [h EXCEPT !.dlive = FALSE, !.dll = ZeroDll]

\* strcpy(dst, src) into a payload buffer of MAX_DATA_LEN bytes.  strcpy
\* copies src up to and including its terminator whatever the size of dst:
\* when src needs more than MAX_DATA_LEN bytes the tail of the copy lands
\* past the end of the buffer, which the heap records in over.  What those
\* bytes overwrite is not modelled.
strcpy(h, dst, src) ==
  IF h.fault # "none" THEN h
  ELSE IF dst = NULL THEN Raise(h, "null_deref")
  ELSE IF ~h.blive[dst] THEN Raise(h, "use_after_free")
  ELSE [h EXCEPT !.btxt[dst] = src,
                 !.over = h.over \/ Len(src) + 1 > MAX_DATA_LEN]

\* strcmp(s1, s2): zero exactly when the two strings are equal
strcmp(s1, s2) == IF s1 = s2 THEN 0 ELSE 1

\* the string a payload pointer refers to
Str(h, b) == IF b \in Buf THEN h.btxt[b] ELSE ""

\* ------------------------------------------------------------- create_node
\* a, b: the results of the two calloc calls
create_node(h, data, prev, next, a, b) ==
  LET h1 == CallocNode(h, a)
      h2 == CallocBuf(h1, b)
      h3 == Store(h2, a, "data", b)
      h4 == Store(h3, a, "prev", prev)
      h5 == Store(h4, a, "next", next)
      h6 == strcpy(h5, b, data)
  IN  [heap |-> h6, n |-> a]

\* ------------------------------------------------ create_doubly_linked_list
\* d: whether calloc of the list block succeeds; a, b as in create_node
create_doubly_linked_list(h, data, d, a, b) ==
  LET h1 == IF d THEN [h EXCEPT !.dlive = TRUE, !.dll = ZeroDll] ELSE h
      cn == create_node(h1, data, NULL, NULL, a, b)
      h2 == IF d THEN StoreDll(cn.heap, "head", cn.n)
                 ELSE Raise(cn.heap, "null_deref")
      h3 == StoreDll(h2, "tail", h2.dll.head)
      h4 == StoreDll(h3, "len", 1)
  IN  h4

\* ------------------------------------------------------------------ append
\* append without dll->len++
append_nolen(h, data, a, b) ==
  LET h0 == TouchDll(h)
  IN  IF h0.dll.head = NULL
      THEN LET cn == create_node(h0, data, NULL, NULL, a, b)
               h1 == StoreDll(cn.heap, "head", cn.n)
           IN  StoreDll(h1, "tail", cn.n)
      ELSE LET cn == create_node(h0, data, h0.dll.tail, NULL, a, b)
               h1 == Store(cn.heap, h0.dll.tail, "next", cn.n)
           IN  StoreDll(h1, "tail", cn.n)

append(h, data, a, b) ==
  LET h0 == TouchDll(h)
      hN == IF h0.dll.head = NULL
            THEN LET cn == create_node(h0, data, NULL, NULL, a, b)
                     h1 == StoreDll(cn.heap, "head", cn.n)
                 IN  StoreDll(h1, "tail", cn.n)
            ELSE IF h0.dll.head = h0.dll.tail
            THEN LET cn == create_node(h0, data, h0.dll.head, NULL, a, b)
                     h1 == Store(cn.heap, h0.dll.head, "next", cn.n)
                 IN  StoreDll(h1, "tail", cn.n)
            ELSE LET cn == create_node(h0, data, h0.dll.tail, NULL, a, b)
                     h1 == Store(cn.heap, h0.dll.tail, "next", cn.n)
                 IN  StoreDll(h1, "tail", cn.n)
  IN  StoreDll(hN, "len", hN.dll.len + 1)

\* -------------------------------------------------------------------- find
RECURSIVE findLoop(_, _, _, _)
findLoop(h, t, i, target) ==
  IF t = NULL THEN [ret |-> 0 - 1, heap |-> h]
  ELSE LET h1 == Touch(h, t) IN
       IF h1.fault # "none" THEN [ret |-> 0, heap |-> h1]
       ELSE IF strcmp(Str(h1, Load(h1, t, "data")), target) = 0
            THEN [ret |-> i, heap |-> h1]
            ELSE findLoop(h1, Load(h1, t, "next"), i + 1, target)

\* find counting positions from 1
find_from1(h, target) ==
  LET h0 == TouchDll(h) IN
  IF h0.fault # "none" THEN [ret |-> 0, heap |-> h0]
  ELSE findLoop(h0, h0.dll.head, 1, target)

find(h, target) ==
  LET h0 == TouchDll(h) IN
  IF h0.fault # "none" THEN [ret |-> 0, heap |-> h0]
  ELSE findLoop(h0, h0.dll.head, 0, target)

\* ------------------------------------- the locating loop of insert and delete
\* Node *t = dll->head; int i = 0; while (i != indx) { t = t->next; i++; }
RECURSIVE locate(_, _, _, _)
locate(h, t, i, indx) ==
  IF i = indx THEN [t |-> t, i |-> i, heap |-> h]
  ELSE LET h1 == Touch(h, t) IN
       IF h1.fault # "none" THEN [t |-> t, i |-> i, heap |-> h1]
       ELSE locate(h1, Load(h1, t, "next"), i + 1, indx)

\* ------------------------------------------------------------------ insert
CannotInsert == "Cannot insert node"     \* the message of line 113
NoNodeAt     == "No node at index"       \* the message of line 149

\* if (indx > dll->len)
insertOutOfRange(len, indx) == indx > len

\* the first test for the end position written with len - 1
insertIsAppend_prev(len, indx) == indx = len - 1

\* if (indx == dll->len), the first test
insertIsAppend(len, indx) == indx = len

\* the splice without the update of head
insertSplice_nohead(h, t, new, indx) ==
  LET h3 == IF Load(h, t, "prev") # NULL
            THEN Store(h, Load(h, t, "prev"), "next", new)
            ELSE h
  IN  Store(h3, t, "prev", new)

\* the splice that does not repair the predecessor's next
insertSplice_nopred(h, t, new, indx) ==
  LET h4 == Store(h, t, "prev", new)
  IN  IF indx = 0 THEN StoreDll(h4, "head", new) ELSE h4

\* the splice whose second test is written with len - 1
insertSplice_tailprev(h, t, new, indx) ==
  LET h3 == IF Load(h, t, "prev") # NULL
            THEN Store(h, Load(h, t, "prev"), "next", new)
            ELSE h
      h4 == Store(h3, t, "prev", new)
      h5 == IF indx = 0 THEN StoreDll(h4, "head", new) ELSE h4
  IN  IF indx = h5.dll.len - 1 THEN StoreDll(h5, "tail", new) ELSE h5

\* the second test written with len - 1
insertSecondTest_prev(len, indx) == indx = len - 1

\* if (indx == dll->len), the second test, after the splice
insertSecondTest(len, indx) == indx = len

\* the splice of new in front of t and the update of head, up to the
\* second test
insertLink(h, t, new, indx) ==
  LET h3 == IF Load(h, t, "prev") # NULL
            THEN Store(h, Load(h, t, "prev"), "next", new)
            ELSE h
      h4 == Store(h3, t, "prev", new)
  IN  IF indx = 0 THEN StoreDll(h4, "head", new) ELSE h4

\* the splice of new in front of t, and the updates of head and tail
insertSplice(h, t, new, indx) ==
  LET h5 == insertLink(h, t, new, indx)
  IN  IF insertSecondTest(h5.dll.len, indx)
      THEN StoreDll(h5, "tail", new) ELSE h5

\* locating t and creating the node to put in front of it
insertLocateCreate(h, indx, data, a, b) ==
  LET w  == locate(h, h.dll.head, 0, indx)
      t  == w.t
      h1 == Touch(w.heap, t)
      cn == create_node(h1, data, Load(h1, t, "prev"), t, a, b)
  IN  [heap |-> cn.heap, t |-> t, new |-> cn.n]

\* returns the heap and the line written to the console, if any
insert(h, indx, data, a, b) ==
  LET h0 == TouchDll(h) IN
  IF h0.fault # "none" THEN [heap |-> h0, out |-> << >>]
  ELSE IF insertOutOfRange(h0.dll.len, indx)
       THEN [heap |-> h0, out |-> <<CannotInsert>>]
  ELSE IF insertIsAppend(h0.dll.len, indx)
       THEN [heap |-> append(h0, data, a, b), out |-> << >>]
  ELSE LET p  == insertLocateCreate(h0, indx, data, a, b)
           h6 == insertSplice(p.heap, p.t, p.new, indx)
       IN  [heap |-> StoreDll(h6, "len", h6.dll.len + 1), out |-> << >>]

\* ------------------------------------------------------------------ delete
\* the range check of delete written with > for >=
deleteOutOfRange_gt(len, indx) == indx > len

\* if (indx >= dll->len)
deleteOutOfRange(len, indx) == indx >= len

\* unlink without the repair of the successor's prev in the general case
unlink_noback(h, t, indx) ==
  LET h2 == Touch(h, t)
      tn == Load(h2, t, "next")
      tp == Load(h2, t, "prev")
  IN  IF indx = 0
      THEN StoreDll(Store(h2, tn, "prev", NULL), "head", tn)
      ELSE IF indx = h2.dll.len - 1
      THEN StoreDll(Store(h2, tp, "next", NULL), "tail", tp)
      ELSE Store(h2, tp, "next", tn)

\* unlink that treats the removal of the tail as the removal of the head
unlink_tailashead(h, t, indx) ==
  LET h2 == Touch(h, t)
      tn == Load(h2, t, "next")
      tp == Load(h2, t, "prev")
  IN  IF indx = 0 \/ indx = h2.dll.len - 1
      THEN StoreDll(Store(h2, tn, "prev", NULL), "head", tn)
      ELSE Store(Store(h2, tp, "next", tn), tn, "prev", tp)

\* unlink that leaves head on the removed node
unlink_keephead(h, t, indx) ==
  LET h2 == Touch(h, t)
      tn == Load(h2, t, "next")
      tp == Load(h2, t, "prev")
  IN  IF indx = 0
      THEN Store(h2, tn, "prev", NULL)
      ELSE IF indx = h2.dll.len - 1
      THEN StoreDll(Store(h2, tp, "next", NULL), "tail", tp)
      ELSE Store(Store(h2, tp, "next", tn), tn, "prev", tp)

\* taking t out of a chain of two or more nodes
unlink(h, t, indx) ==
  LET h2 == Touch(h, t)
      tn == Load(h2, t, "next")
      tp == Load(h2, t, "prev")
  IN  IF indx = 0
      THEN StoreDll(Store(h2, tn, "prev", NULL), "head", tn)
      ELSE IF indx = h2.dll.len - 1
      THEN StoreDll(Store(h2, tp, "next", NULL), "tail", tp)
      ELSE Store(Store(h2, tp, "next", tn), tn, "prev", tp)

delete(h, indx) ==
  LET h0 == TouchDll(h) IN
  IF h0.fault # "none" THEN [heap |-> h0, out |-> << >>]
  ELSE IF deleteOutOfRange(h0.dll.len, indx)
       THEN [heap |-> h0, out |-> <<NoNodeAt>>]
  ELSE LET w  == locate(h0, h0.dll.head, 0, indx)
           t  == w.t
           h1 == w.heap
       IN
       IF h1.dll.len = 1
       THEN LET g1 == StoreDll(h1, "head", NULL)
                g2 == StoreDll(g1, "tail", NULL)
                g3 == StoreDll(g2, "len", g2.dll.len - 1)
            IN  [heap |-> FreeNode(g3, t), out |-> << >>]
       ELSE LET h3 == unlink(h1, t, indx)
                h4 == StoreDll(h3, "len", h3.dll.len - 1)
            IN  [heap |-> FreeNode(h4, t), out |-> << >>]

\* ---------------------------------------------------------------- free_dll
\* while (t != dll->head) { t = t->prev; free(t->next); }
RECURSIVE freeLoop(_, _)
freeLoop(h, t) ==
  IF h.fault # "none" \/ t = h.dll.head THEN [heap |-> h, t |-> t]
  ELSE LET h1 == Touch(h, t)
           t1 == Load(h1, t, "prev")
           h2 == Touch(h1, t1)
           h3 == FreeNode(h2, Load(h2, t1, "next"))
       IN  freeLoop(h3, t1)

free_dll(h) ==
  LET h0 == TouchDll(h)
      w  == freeLoop(h0, h0.dll.tail)
      h1 == FreeNode(w.heap, w.t)
  IN  FreeDllBlock(h1)

\* ------------------------------------------------------------ traverse_dll
EndMarker == "NULL"

\* do { printf("%s->", t->data); t = t->next; } while (t != NULL);
RECURSIVE traverseLoop(_, _, _)
traverseLoop(h, t, out) ==
  LET h1 == Touch(h, t) IN
  IF h1.fault # "none" THEN [heap |-> h1, out |-> out]
  ELSE LET out1 == Append(out, Str(h1, Load(h1, t, "data")))
           t1   == Load(h1, t, "next")
       IN  IF t1 # NULL THEN traverseLoop(h1, t1, out1)
           ELSE [heap |-> h1, out |-> out1]

\* the text written to the console, as the sequence of the printed strings
traverse_dll(h) ==
  LET h0 == TouchDll(h)
      w  == traverseLoop(h0, h0.dll.head, << >>)
  IN  IF w.heap.fault # "none" THEN w
      ELSE [heap |-> w.heap, out |-> Append(w.out, EndMarker)]

\* ----------------------------------------------------------- the program
\* pc: "start" before create_doubly_linked_list, "running" while the list is
\* in use, "freed" after free_dll, "crashed" once a call has faulted.
\* last: the call made last, with its arguments and what it returned/printed.
\* rt: observer of the scenario "append N times, then delete N-1, ..., 0".

After(h) == IF h.fault = "none" THEN "running" ELSE "crashed"

\* How a call can end.  Once memory past a buffer has been written the
\* behaviour is undefined: the process may go on or stop at any call.
Outcomes(h) == IF h.over THEN {After(h), "crashed"} ELSE {After(h)}

\* nomem: a calloc of the call, if it made one, returned NULL
Call(op, indx, data, ret, out, nomem) ==
  [op |-> op, indx |-> indx, data |-> data, ret |-> ret, out |-> out,
   nomem |-> nomem, preLen |-> heap.dll.len]

RtOff == [phase |-> "off", n |-> 0, k |-> 0]

Init ==
  /\ heap = EmptyHeap
  /\ pc = "start"
  /\ last = [op |-> "none", indx |-> 0, data |-> "", ret |-> 0,
              out |-> << >>, nomem |-> FALSE, preLen |-> 0]
  /\ rt = RtOff

CreateOf(T) ==
  /\ pc = "start"
  /\ \E data \in T, d \in BOOLEAN,
        a \in NodeChoices(heap), b \in BufChoices(heap) :
       /\ heap' = create_doubly_linked_list(heap, data, d, a, b)
       /\ last' = Call("create", 0, data, 0, << >>,
                       ~d \/ a = NULL \/ b = NULL)
  /\ pc' \in Outcomes(heap')
  /\ rt' = IF pc' = "running" THEN [phase |-> "app", n |-> 0, k |-> 0]
                              ELSE RtOff

Create == CreateOf(Texts)

AppendOf(T) ==
  /\ pc = "running"
  /\ \E data \in T, a \in NodeChoices(heap), b \in BufChoices(heap) :
       /\ heap' = append(heap, data, a, b)
       /\ last' = Call("append", 0, data, 0, << >>, a = NULL \/ b = NULL)
  /\ pc' \in Outcomes(heap')
  /\ rt' = IF pc' = "running" /\ rt.phase = "app"
           THEN [rt EXCEPT !.n = rt.n + 1] ELSE RtOff

DoAppend == AppendOf(Texts)

InsertOf(T) ==
  /\ pc = "running"
  /\ \E indx \in Indices, data \in T,
        a \in NodeChoices(heap), b \in BufChoices(heap) :
       LET r == insert(heap, indx, data, a, b) IN
       /\ heap' = r.heap
       /\ last' = Call("insert", indx, data, 0, r.out, a = NULL \/ b = NULL)
  /\ pc' \in Outcomes(heap')
  /\ rt' = RtOff

DoInsert == InsertOf(Texts)

DoDelete ==
  /\ pc = "running"
  /\ \E indx \in Indices :
       LET r == delete(heap, indx) IN
       /\ heap' = r.heap
       /\ last' = Call("delete", indx, "", 0, r.out, FALSE)
       /\ rt' = IF r.heap.fault # "none" \/ r.out # << >> THEN RtOff
                ELSE IF rt.phase = "app" /\ rt.n >= 1 /\ indx = rt.n - 1
                THEN [rt EXCEPT !.phase = "del", !.k = indx - 1]
                ELSE IF rt.phase = "del" /\ indx = rt.k
                THEN [rt EXCEPT !.k = indx - 1]
                ELSE RtOff
  /\ pc' \in Outcomes(heap')

DoFind ==
  /\ pc = "running"
  /\ \E target \in Targets :
       LET r == find(heap, target) IN
       /\ heap' = r.heap
       /\ last' = Call("find", 0, target, r.ret, << >>, FALSE)
  /\ pc' \in Outcomes(heap')
  /\ rt' = RtOff

DoTraverse ==
  /\ pc = "running"
  /\ LET r == traverse_dll(heap) IN
       /\ heap' = r.heap
       /\ last' = Call("traverse", 0, "", 0, r.out, FALSE)
  /\ pc' \in Outcomes(heap')
  /\ rt' = RtOff

DoFree ==
  /\ pc = "running"
  /\ heap' = free_dll(heap)
  /\ last' = Call("free_dll", 0, "", 0, << >>, FALSE)
  /\ pc' \in IF heap'.fault # "none" THEN {"crashed"}
            ELSE IF heap'.over THEN {"freed", "crashed"} ELSE {"freed"}
  /\ rt' = rt

Next ==
  \/ Create
  \/ DoAppend
  \/ DoInsert
  \/ DoDelete
  \/ DoFind
  \/ DoTraverse
  \/ DoFree

Spec == Init /\ [][Next]_vars

\* the same program called with texts of which one does not fit a buffer
CreateLong == CreateOf(LongTexts)
AppendLong == AppendOf(LongTexts)
InsertLong == InsertOf(LongTexts)

NextLong ==
  \/ CreateLong
  \/ AppendLong
  \/ InsertLong
  \/ DoDelete
  \/ DoFind
  \/ DoTraverse
  \/ DoFree

SpecLong == Init /\ [][NextLong]_vars

TypeOK ==
  /\ pc \in {"start", "running", "freed", "crashed"}
  /\ heap.dll.len \in 0..MaxNodes
  /\ heap.fault \in {"none", "null_deref", "use_after_free", "double_free"}

\* ------------------------------------------------- reading the chain back
\* the nodes met following field f from p, at most fuel of them
RECURSIVE Chain(_, _, _, _)
Chain(h, p, f, fuel) ==
  IF p = NULL \/ fuel = 0 THEN << >>
  ELSE <<p>> \o Chain(h, Load(h, p, f), f, fuel - 1)

FwdNodes(h) == Chain(h, h.dll.head, "next", MaxNodes + 1)
BwdNodes(h) == Chain(h, h.dll.tail, "prev", MaxNodes + 1)
Reach(h)    == {FwdNodes(h)[i] : i \in 1..Len(FwdNodes(h))}
                 \cup {BwdNodes(h)[i] : i \in 1..Len(BwdNodes(h))}
Payloads(h) ==
  [i \in 1..Len(FwdNodes(h)) |-> Str(h, Load(h, FwdNodes(h)[i], "data"))]
PayloadSet(h) == {Payloads(h)[i] : i \in 1..Len(Payloads(h))}

RemoveAt(s, i) == [j \in 1..(Len(s) - 1) |-> IF j < i THEN s[j] ELSE s[j + 1]]
Reverse(s)     == [j \in 1..Len(s) |-> s[Len(s) + 1 - j]]

BiConsistent(h) ==
  /\ h.dll.head # NULL => Load(h, h.dll.head, "prev") = NULL
  /\ h.dll.tail # NULL => Load(h, h.dll.tail, "next") = NULL
  /\ \A n \in Reach(h) :
       /\ h.nlive[n]
       /\ Load(h, n, "prev") # NULL => Load(h, Load(h, n, "prev"), "next") = n
       /\ Load(h, n, "next") # NULL => Load(h, Load(h, n, "next"), "prev") = n

\* ----------------------------------------------------------------- claims

\* C1: while the list is in use, after create and any calls of append, insert
\* and delete, head->prev and tail->next are NULL and every node of the chain
\* is the next of its prev and the prev of its next.
C1_Bidirectional == pc = "running" => BiConsistent(heap)

\* a node has just been deleted from the middle of a three-node chain
C1_Witness ==
  /\ pc = "running"
  /\ last.op = "delete" /\ last.preLen = 3 /\ last.indx = 1
  /\ heap.dll.len = 2

\* C2: while the list is in use, len is 0 exactly when head and tail are NULL,
\* 1 exactly when head and tail are one node without neighbours, and the walk
\* along next from head (along prev from tail) meets exactly len nodes and
\* ends at tail (at head).
C2_LenAgrees ==
  pc = "running" =>
    LET h == heap
        f == FwdNodes(h)
        b == BwdNodes(h)
    IN  /\ h.dll.len = 0 <=> (h.dll.head = NULL /\ h.dll.tail = NULL)
        /\ h.dll.len = 1 <=> /\ h.dll.head # NULL
                              /\ h.dll.head = h.dll.tail
                              /\ Load(h, h.dll.head, "prev") = NULL
                              /\ Load(h, h.dll.head, "next") = NULL
        /\ Len(f) = h.dll.len
        /\ Len(b) = h.dll.len
        /\ h.dll.len > 0 =>
             /\ f[h.dll.len] = h.dll.tail
             /\ Load(h, f[h.dll.len], "next") = NULL
             /\ b[h.dll.len] = h.dll.head
             /\ Load(h, b[h.dll.len], "prev") = NULL
        /\ b = Reverse(f)

\* three nodes after an insert in the middle, a node having been deleted
\* before (its payload buffer is still allocated and no node refers to it)
C2_Witness ==
  /\ pc = "running"
  /\ heap.dll.len = 3
  /\ \E b \in Buf : heap.blive[b] /\ \A n \in Reach(heap) : heap.node[n].data # b
  /\ last.op = "insert" /\ last.indx = 1

\* C3: insert with indx > len and delete with indx >= len return without
\* changing anything: the list block, every node, every payload and the set
\* of allocated blocks are the same before and after.
C3_OutOfRangeNoOp ==
  [][ ( /\ pc = "running"
        /\ \/ last'.op = "insert" /\ last'.indx > heap.dll.len
           \/ last'.op = "delete" /\ last'.indx >= heap.dll.len )
      => (heap' = heap /\ pc' = "running") ]_vars

\* delete has been called on the empty list
C3_Witness ==
  /\ pc = "running"
  /\ last.op = "delete" /\ last.preLen = 0 /\ last.indx >= 0
  /\ last.out = <<NoNodeAt>>

\* C4: insert(index, text) with index in [0, len] and text not yet a payload,
\* when its allocations succeed, returns and find(text) then returns index.
C4_InsertThenFind ==
  [][ ( /\ pc = "running"
        /\ last'.op = "insert" /\ ~last'.nomem
        /\ last'.indx \in 0..heap.dll.len
        /\ last'.data \notin PayloadSet(heap) )
      => ( /\ pc' = "running"
           /\ find(heap', last'.data).ret = last'.indx
           /\ find(heap', last'.data).heap.fault = "none" ) ]_vars

\* a text that occurs once has just been inserted strictly inside the list
C4_Witness ==
  /\ pc = "running"
  /\ last.op = "insert" /\ last.indx > 0 /\ last.indx < last.preLen
  /\ Cardinality({i \in 1..Len(Payloads(heap)) :
                     Payloads(heap)[i] = last.data}) = 1
  /\ find(heap, last.data).ret = last.indx

\* C5: delete(index) with index in [0, len-1] returns, len is one less, the
\* node that was at position index is gone from the chain and released, the
\* other nodes and payloads keep their order, and the chain is
\* bidirectionally consistent.
C5_DeleteRemovesIndex ==
  [][ ( /\ pc = "running"
        /\ last'.op = "delete"
        /\ last'.indx \in 0..(heap.dll.len - 1) )
      => ( /\ pc' = "running"
           /\ heap'.dll.len = heap.dll.len - 1
           /\ FwdNodes(heap') = RemoveAt(FwdNodes(heap), last'.indx + 1)
           /\ Payloads(heap') = RemoveAt(Payloads(heap), last'.indx + 1)
           /\ ~heap'.nlive[FwdNodes(heap)[last'.indx + 1]]
           /\ BiConsistent(heap') ) ]_vars

\* the tail of a three-node list has just been deleted
C5_Witness ==
  /\ pc = "running"
  /\ last.op = "delete" /\ last.preLen = 3 /\ last.indx = 2
  /\ heap.dll.len = 2

\* C6: insert(len, text) leaves exactly the heap that append(text) leaves
\* from the same state with the same results of calloc: the same len, head,
\* tail, nodes, links and payloads.
C6_InsertAtLenIsAppend ==
  [][ ( /\ pc = "running"
        /\ last'.op = "insert" /\ last'.indx = heap.dll.len )
      => \E a \in NodeChoices(heap), b \in BufChoices(heap) :
           /\ last'.nomem = (a = NULL \/ b = NULL)
           /\ heap' = append(heap, last'.data, a, b)
           /\ pc' = After(append(heap, last'.data, a, b)) ]_vars

\* insert(0, text) has just filled a list that delete had emptied
C6_Witness ==
  /\ pc = "running"
  /\ last.op = "insert" /\ last.preLen = 0 /\ last.indx = 0
  /\ heap.dll.len = 1 /\ heap.dll.head = heap.dll.tail
  /\ Payloads(heap) = <<last.data>>

\* C7: after free_dll no node, no payload buffer and no list block remains
\* allocated, and nothing was released twice or read after its release.
C7_TeardownReleasesAll ==
  last.op = "free_dll" =>
    /\ pc = "freed"
    /\ heap.fault = "none"
    /\ ~heap.dlive
    /\ \A a \in Addr : ~heap.nlive[a]
    /\ \A b \in Buf : ~heap.blive[b]

\* C8: when create, N appends and the deletes of N-1, ..., 0 have been made,
\* the list is back to at most one node, every allocated node and payload
\* buffer belongs to the chain, and the chain refers to allocated blocks only.
RoundTripDone == rt.phase = "del" /\ rt.k = 0 - 1

NoLeak(h) ==
  /\ \A a \in Addr : h.nlive[a] => a \in Reach(h)
  /\ \A b \in Buf : h.blive[b] => \E n \in Reach(h) : Load(h, n, "data") = b

NoDangling(h) ==
  /\ h.dll.head # NULL => h.nlive[h.dll.head]
  /\ h.dll.tail # NULL => h.nlive[h.dll.tail]
  /\ \A n \in Reach(h) :
       /\ h.nlive[n]
       /\ Load(h, n, "data") # NULL /\ h.blive[Load(h, n, "data")]

C8_RoundTrip ==
  RoundTripDone =>
    /\ pc = "running"
    /\ heap.dll.len <= 1
    /\ NoLeak(heap)
    /\ NoDangling(heap)

\* C9: traverse_dll returns on every list, the empty one included, having
\* printed the payloads from head to tail and then the end marker, and
\* leaves the list as it was.
C9_TraverseNeverFails ==
  [][ (pc = "running" /\ last'.op = "traverse")
      => ( /\ pc' = "running"
           /\ last'.out = Payloads(heap) \o <<EndMarker>>
           /\ heap' = heap ) ]_vars

\* C10: find(target) returns the zero-based position of the first node from
\* head whose payload is target, -1 when there is none, and changes nothing.
FirstMatch(s, x) ==
  IF \E i \in 1..Len(s) : s[i] = x
  THEN (CHOOSE i \in 1..Len(s) :
          s[i] = x /\ \A j \in 1..(i - 1) : s[j] # x) - 1
  ELSE 0 - 1

C10_FindFirstMatch ==
  [][ (pc = "running" /\ last'.op = "find")
      => ( /\ last'.ret = FirstMatch(Payloads(heap), last'.data)
           /\ heap' = heap
           /\ pc' = "running" ) ]_vars

\* find has returned 1 for a text that two nodes hold
C10_Witness ==
  /\ pc = "running"
  /\ last.op = "find" /\ last.ret = 1
  /\ Cardinality({i \in 1..Len(Payloads(heap)) :
                     Payloads(heap)[i] = last.data}) = 2

\* C11: every call of insert and delete that gets past its range check, for
\* any integer index, finds its position: the locating loop stops without
\* reading next through NULL, after at most len steps.
ReachesLoop(h, op, indx) ==
  \/ /\ op = "insert"
     /\ ~insertOutOfRange(h.dll.len, indx)
     /\ ~insertIsAppend(h.dll.len, indx)
  \/ /\ op = "delete"
     /\ ~deleteOutOfRange(h.dll.len, indx)

C11_LocateTerminates ==
  [][ (pc = "running" /\ ReachesLoop(heap, last'.op, last'.indx))
      => LET w == locate(heap, heap.dll.head, 0, last'.indx) IN
         /\ w.heap.fault = "none"
         /\ w.i <= heap.dll.len
         /\ heap'.fault # "null_deref" \/ last'.nomem ]_vars

\* C12: when delete has removed a node, head, tail and the prev and next of
\* every node still in the chain refer to other nodes than the released one.
C12_NoReferenceToDeleted ==
  [][ ( /\ pc = "running" /\ pc' = "running"
        /\ last'.op = "delete"
        /\ last'.indx \in 0..(heap.dll.len - 1) )
      => LET v == FwdNodes(heap)[last'.indx + 1] IN
         /\ ~heap'.nlive[v]
         /\ heap'.dll.head # v
         /\ heap'.dll.tail # v
         /\ v \notin Reach(heap')
         /\ \A n \in Reach(heap') :
              Load(heap', n, "prev") # v /\ Load(heap', n, "next") # v ]_vars

\* the head of a three-node list has just been deleted
C12_Witness ==
  /\ pc = "running"
  /\ last.op = "delete" /\ last.preLen = 3 /\ last.indx = 0
  /\ heap.dll.len = 2
  /\ \E a \in Addr : ~heap.nlive[a]

\* C13: whatever text create, append and insert are given, while the list is
\* in use the payload of every node fits, terminator included, the
\* MAX_DATA_LEN bytes of its buffer, and nothing was written past a buffer.
C13_PayloadFits ==
  pc = "running" =>
    /\ ~heap.over
    /\ \A n \in Addr :
         (heap.nlive[n] /\ heap.node[n].data # NULL)
           => Len(Str(heap, heap.node[n].data)) + 1 <= MAX_DATA_LEN

\* C14: when a calloc of create, append or insert returns NULL, the call
\* comes back to its caller without a fault, and the list block and the
\* prev and next of every node are what they were before the call.
CallsCalloc(h, op, indx) ==
  \/ op = "create"
  \/ op = "append"
  \/ op = "insert" /\ indx \in 0..h.dll.len

LinksUnchanged(h, g) ==
  /\ g.dll = h.dll
  /\ \A n \in Addr :
       h.nlive[n] => /\ g.nlive[n]
                     /\ g.node[n].prev = h.node[n].prev
                     /\ g.node[n].next = h.node[n].next

C14_AllocFailureSignalled ==
  [][ (last'.nomem /\ CallsCalloc(heap, last'.op, last'.indx))
      => ( /\ heap'.fault = "none"
           /\ pc' # "crashed"
           /\ LinksUnchanged(heap, heap') ) ]_vars

\* C15: insert(index, text) with index in [0, len], when its allocations
\* succeed, returns with len one more and the payloads old[0..index-1], text,
\* old[index..len-1]: one new node at position index, the old nodes in their
\* order behind and before it, each with the payload it had.
InsertAt(s, i, x) ==
  [j \in 1..(Len(s) + 1) |-> IF j < i THEN s[j] ELSE IF j = i THEN x
                                                 ELSE s[j - 1]]

C15_InsertShifts ==
  [][ ( /\ pc = "running"
        /\ last'.op = "insert" /\ ~last'.nomem
        /\ last'.indx \in 0..heap.dll.len )
      => ( /\ pc' = "running"
           /\ heap'.dll.len = heap.dll.len + 1
           /\ Payloads(heap') =
                InsertAt(Payloads(heap), last'.indx + 1, last'.data)
           /\ \E new \in Addr :
                /\ ~heap.nlive[new]
                /\ FwdNodes(heap') =
                     InsertAt(FwdNodes(heap), last'.indx + 1, new)
           /\ \A n \in Reach(heap) :
                /\ heap'.node[n].data = heap.node[n].data
                /\ Str(heap', heap'.node[n].data)
                     = Str(heap, heap.node[n].data) ) ]_vars

\* a text has just been inserted between the two nodes of a list
C15_Witness ==
  /\ pc = "running"
  /\ last.op = "insert" /\ last.preLen = 2 /\ last.indx = 1
  /\ heap.dll.len = 3
  /\ Payloads(heap)[2] = last.data

\* C16: insert(index, text) with index < len, when its allocations succeed,
\* leaves tail on the same node; at index 0 the new node is head, with prev
\* NULL and the old head as next, otherwise head is the same node; tail's
\* prev becomes the new node exactly when index is len - 1.
C16_InsertHeadAndTail ==
  [][ ( /\ pc = "running"
        /\ last'.op = "insert" /\ ~last'.nomem
        /\ last'.indx \in 0..(heap.dll.len - 1) )
      => \E new \in Addr :
           /\ ~heap.nlive[new] /\ heap'.nlive[new]
           /\ pc' = "running"
           /\ heap'.dll.tail = heap.dll.tail
           /\ Load(heap', heap'.dll.tail, "next") = NULL
           /\ IF last'.indx = 0
              THEN /\ heap'.dll.head = new
                   /\ Load(heap', new, "prev") = NULL
                   /\ Load(heap', new, "next") = heap.dll.head
              ELSE heap'.dll.head = heap.dll.head
           /\ IF last'.indx = heap.dll.len - 1
              THEN Load(heap', heap.dll.tail, "prev") = new
              ELSE Load(heap', heap.dll.tail, "prev")
                     = Load(heap, heap.dll.tail, "prev") ]_vars

\* insert(0, text) on a one-node list: the new node is head and the prev of
\* the tail, which is the node it was
C16_Witness ==
  /\ pc = "running"
  /\ last.op = "insert" /\ last.preLen = 1 /\ last.indx = 0
  /\ heap.dll.len = 2
  /\ heap.dll.head # heap.dll.tail
  /\ Load(heap, heap.dll.tail, "prev") = heap.dll.head
  /\ Str(heap, Load(heap, heap.dll.head, "data")) = last.data

\* C17: in every call of insert that gets to the second test of
\* indx == dll->len (line 139), whatever calloc returned, the test is false;
\* dll->tail = new is not executed and tail is the node it was.
C17_SecondTestDead ==
  [][ ( /\ pc = "running"
        /\ last'.op = "insert"
        /\ ~insertOutOfRange(heap.dll.len, last'.indx)
        /\ ~insertIsAppend(heap.dll.len, last'.indx) )
      => /\ \A a \in NodeChoices(heap), b \in BufChoices(heap) :
              LET p  == insertLocateCreate(heap, last'.indx, last'.data, a, b)
                  h5 == insertLink(p.heap, p.t, p.new, last'.indx)
              IN  h5.fault = "none"
                    => ~insertSecondTest(h5.dll.len, last'.indx)
         /\ heap'.dll.tail = heap.dll.tail ]_vars

\* insert has just put a node in front of the tail of a two-node list: the
\* call went through the second test with indx = len - 1
C17_Witness ==
  /\ pc = "running"
  /\ last.op = "insert" /\ last.preLen = 2 /\ last.indx = 1
  /\ ~last.nomem
  /\ heap.dll.len = 3
  /\ Load(heap, heap.dll.tail, "prev") = FwdNodes(heap)[2]

====
